---- MODULE Spec2Model ----
(***************************************************************************)
(* JwtManager (Garbee/jwt): a manager that keeps one JWT in browser        *)
(* storage and validates its time claims at every access.                  *)
(*                                                                         *)
(* A token string is modelled by the list of its dot-separated segments;   *)
(* a segment is what base64url-decoding and JSON-parsing make of it.       *)
(* Time is the millisecond clock Date.now() in steps of TickMs.            *)
(***************************************************************************)
EXTENDS Integers, Sequences, FiniteSets, TLC

\* ---------------------------------------------------------------- bounds
MaxT == 2            \* largest second the clock and the time claims reach
MsPerSec == 1000     \* Date.now() / 1000
TickMs == MsPerSec \div 2   \* granularity of the modelled millisecond clock
MaxClock == MaxT * MsPerSec + TickMs

\* ------------------------------------------------------------ JS values
ABSENT == -1         \* a numeric claim that is not in the payload (undefined)
UNDEF == "undefined" \* a string claim that is not in the payload (undefined)
NULL == << >>        \* Storage.getItem of a missing key / getter's undefined

\* JavaScript truthiness of a numeric claim: undefined and 0 are falsy
Truthy(v) == v # ABSENT /\ v # 0

\* ------------------------------------------------------------- payloads
TimeVals == 0..MaxT
ClaimTimes == TimeVals \cup {ABSENT}

\* JwtPayload: the registered claims of the decoded payload
MkClaims(nbf, exp, sub) ==
    [iss |-> UNDEF, sub |-> sub, aud |-> UNDEF, jti |-> UNDEF,
     iat |-> ABSENT, nbf |-> nbf, exp |-> exp, email |-> UNDEF]

Payloads == {MkClaims(n, e, s) : n \in ClaimTimes, e \in ClaimTimes,
                                 s \in {UNDEF, "123"}}
NoClaims == MkClaims(ABSENT, ABSENT, UNDEF)

\* ------------------------------------------------------------- segments
\* kind "json": base64url of the JSON text of obj
\* kind "text": valid base64url whose text is not JSON   ("TOKEN2", "")
\* kind "raw" : not valid base64url                       ("TOKEN")
JsonSeg(c) == [kind |-> "json", obj |-> c]
TextSeg == [kind |-> "text", obj |-> NoClaims]
RawSeg == [kind |-> "raw", obj |-> NoClaims]

\* createMockJwt: header.payload.signature, the header and signature fixed
HeaderSeg == JsonSeg(NoClaims)
SignatureSeg == TextSeg
createMockJwt(payload) == <<HeaderSeg, JsonSeg(payload), SignatureSeg>>

MockTokens == {createMockJwt(p) : p \in Payloads}
\* strings that are not tokens: "fubar", "FAKE.TOKEN", "FAKE.TOKEN2"
Fubar == <<RawSeg>>
BadBase64Token == <<TextSeg, RawSeg>>
BadJsonToken == <<TextSeg, TextSeg>>
MalformedTokens == {Fubar, BadBase64Token, BadJsonToken}
Tokens == MockTokens \cup MalformedTokens

\* --------------------------------------------------------------- errors
NoErr == [type |-> "none", detail |-> "", a |-> 0, b |-> 0]
InvalidTokenError(detail, part) ==
    [type |-> "InvalidTokenError", detail |-> detail, a |-> part, b |-> 0]
CriteriaNotBefore(notBefore, currentTime) ==
    [type |-> "CriteriaNotBefore", detail |-> "", a |-> notBefore,
     b |-> currentTime]
TokenExpired(expiredAt, currentTime) ==
    [type |-> "TokenExpired", detail |-> "", a |-> expiredAt,
     b |-> currentTime]
HookError == [type |-> "Error", detail |-> "custom validation", a |-> 0,
              b |-> 0]

\* -------------------------------------------------------------- decoder
\* jwtDecode(token, {header}): the part decoded is #1 for the header,
\* #2 otherwise
NonString == <<[kind |-> "nonstring", obj |-> NoClaims]>>
\* a decoder without the check of the argument's type
jwtDecode_NoTypeCheck(token, header) ==
    LET pos == IF header THEN 1 ELSE 2 IN
    IF Len(token) < pos
    THEN [err |-> InvalidTokenError("missing part", pos), obj |-> NoClaims]
    ELSE IF token[pos].kind = "raw"
    THEN [err |-> InvalidTokenError("invalid base64", pos), obj |-> NoClaims]
    ELSE IF token[pos].kind = "text"
    THEN [err |-> InvalidTokenError("invalid json", pos), obj |-> NoClaims]
    ELSE [err |-> NoErr, obj |-> token[pos].obj]

jwtDecode(token, header) ==
    LET pos == IF header THEN 1 ELSE 2 IN
    IF token = NonString
    THEN [err |-> InvalidTokenError("must be a string", 0),
          obj |-> NoClaims]
    ELSE IF Len(token) < pos
    THEN [err |-> InvalidTokenError("missing part", pos), obj |-> NoClaims]
    ELSE IF token[pos].kind = "raw"
    THEN [err |-> InvalidTokenError("invalid base64", pos), obj |-> NoClaims]
    ELSE IF token[pos].kind = "text"
    THEN [err |-> InvalidTokenError("invalid json", pos), obj |-> NoClaims]
    ELSE [err |-> NoErr, obj |-> token[pos].obj]

\* a #decode that also wants the signature segment to be base64url
decode_ChecksSignature(token) ==
    IF Len(token) >= 3 /\ token[3].kind = "raw"
    THEN [err |-> InvalidTokenError("invalid base64", 3), obj |-> NoClaims]
    ELSE jwtDecode(token, FALSE)

\* JwtManager.#decode
decode(token) == jwtDecode(token, FALSE)

\* ------------------------------------------------- the token as a string
\* A string is the sequence of its code points; a JSON value is a number,
\* a string or an object of string and number members, in member order.
MaxStrLen == 2       \* longest string claim of the codec's inputs
MaxSegments == 4     \* most dot-separated segments of the codec's inputs
Dot == 46
Quote == 34
Backslash == 92
Pad == 61
Num(n) == [t |-> "num", n |-> n, s |-> << >>, e |-> << >>]
Str(s) == [t |-> "str", n |-> 0, s |-> s, e |-> << >>]
Obj(e) == [t |-> "obj", n |-> 0, s |-> << >>, e |-> e]

\* JSON.stringify of a value
RECURSIVE digits(_)
digits(n) == IF n < 10 THEN <<48 + n>>
             ELSE digits(n \div 10) \o <<48 + (n % 10)>>
RECURSIVE escape(_)
escape(s) ==
    IF s = << >> THEN << >>
    ELSE (IF Head(s) \in {Quote, Backslash} THEN <<Backslash, Head(s)>>
          ELSE <<Head(s)>>) \o escape(Tail(s))
quoted(s) == <<Quote>> \o escape(s) \o <<Quote>>
scalar(v) == IF v.t = "num" THEN digits(v.n) ELSE quoted(v.s)
RECURSIVE members(_)
members(e) ==
    IF e = << >> THEN << >>
    ELSE quoted(Head(e).k) \o <<58>> \o scalar(Head(e).v)
         \o (IF Len(e) = 1 THEN << >> ELSE <<44>> \o members(Tail(e)))
stringify(v) == IF v.t = "obj" THEN <<123>> \o members(v.e) \o <<125>>
                ELSE scalar(v)

\* Buffer.from(string): the UTF-8 bytes of the code points (below 2048)
RECURSIVE utf8Encode(_)
utf8Encode(s) ==
    IF s = << >> THEN << >>
    ELSE (IF Head(s) < 128 THEN <<Head(s)>>
          ELSE <<192 + (Head(s) \div 64), 128 + (Head(s) % 64)>>)
         \o utf8Encode(Tail(s))

\* .toString('base64'): the standard alphabet, padded with '='
B64Char(n) == IF n < 26 THEN 65 + n
              ELSE IF n < 52 THEN 97 + (n - 26)
              ELSE IF n < 62 THEN 48 + (n - 52)
              ELSE IF n = 62 THEN 43 ELSE 47
RECURSIVE toBase64(_)
toBase64(b) ==
    IF b = << >> THEN << >>
    ELSE IF Len(b) = 1
    THEN <<B64Char(b[1] \div 4), B64Char((b[1] % 4) * 16), Pad, Pad>>
    ELSE IF Len(b) = 2
    THEN <<B64Char(b[1] \div 4),
           B64Char((b[1] % 4) * 16 + (b[2] \div 16)),
           B64Char((b[2] % 16) * 4), Pad>>
    ELSE <<B64Char(b[1] \div 4),
           B64Char((b[1] % 4) * 16 + (b[2] \div 16)),
           B64Char((b[2] % 16) * 4 + (b[3] \div 64)),
           B64Char(b[3] % 64)>> \o toBase64(SubSeq(b, 4, Len(b)))
NotPad(c) == c # Pad
\* a base64Encode that cuts the input to whole groups of three bytes
base64Encode_WholeGroups(v) ==
    SelectSeq(toBase64(SubSeq(utf8Encode(stringify(v)), 1,
                  3 * (Len(utf8Encode(stringify(v))) \div 3))), NotPad)

\* createMockJwt's base64Encode: .replaceAll('=', '') of the base64 text
base64Encode(v) == SelectSeq(toBase64(utf8Encode(stringify(v))), NotPad)

\* 'alg', 'HS256', 'typ', 'JWT', 'mock-secret'
MockHeader == Obj(<<[k |-> <<97, 108, 103>>,
                     v |-> Str(<<72, 83, 50, 53, 54>>)],
                    [k |-> <<116, 121, 112>>,
                     v |-> Str(<<74, 87, 84>>)]>>)
MockSecret == <<109, 111, 99, 107, 45, 115, 101, 99, 114, 101, 116>>
\* the string createMockJwt returns
createMockJwtText(payload, secret) ==
    base64Encode(MockHeader) \o <<Dot>> \o base64Encode(payload)
    \o <<Dot>> \o base64Encode(Str(secret))

\* ---- the decoder on strings: split, base64url, UTF-8, JSON.parse
\* token.split('.')
RECURSIVE split(_)
split(s) ==
    IF \A i \in 1..Len(s) : s[i] # Dot THEN <<s>>
    ELSE <<SubSeq(s, 1, (CHOOSE i \in 1..Len(s) :
                  s[i] = Dot /\ \A j \in 1..(i - 1) : s[j] # Dot) - 1)>>
         \o split(SubSeq(s, (CHOOSE i \in 1..Len(s) :
                  s[i] = Dot /\ \A j \in 1..(i - 1) : s[j] # Dot) + 1,
                  Len(s)))

\* the six bits of a character of either alphabet, -1 for any other
Sextet(c) == IF c \in 65..90 THEN c - 65
             ELSE IF c \in 97..122 THEN c - 97 + 26
             ELSE IF c \in 48..57 THEN c - 48 + 52
             ELSE IF c \in {43, 45} THEN 62
             ELSE IF c \in {47, 95} THEN 63
             ELSE -1
\* the padding restored: impossible for a length of 1 mod 4
padded(s) == IF Len(s) % 4 = 2 THEN s \o <<Pad, Pad>>
             ELSE IF Len(s) % 4 = 3 THEN s \o <<Pad>> ELSE s
\* the text is base64 once padded: only the last group ends in '='
IsBase64(p) ==
    /\ Len(p) % 4 = 0
    /\ \A i \in 1..Len(p) :
          \/ Sextet(p[i]) >= 0
          \/ p[i] = Pad /\ i = Len(p)
          \/ p[i] = Pad /\ i = Len(p) - 1 /\ p[Len(p)] = Pad
RECURSIVE fromBase64(_)
fromBase64(p) ==
    IF p = << >> THEN << >>
    ELSE (IF p[3] = Pad
          THEN <<Sextet(p[1]) * 4 + (Sextet(p[2]) \div 16)>>
          ELSE IF p[4] = Pad
          THEN <<Sextet(p[1]) * 4 + (Sextet(p[2]) \div 16),
                 (Sextet(p[2]) % 16) * 16 + (Sextet(p[3]) \div 4)>>
          ELSE <<Sextet(p[1]) * 4 + (Sextet(p[2]) \div 16),
                 (Sextet(p[2]) % 16) * 16 + (Sextet(p[3]) \div 4),
                 (Sextet(p[3]) % 4) * 64 + Sextet(p[4])>>)
         \o fromBase64(SubSeq(p, 5, Len(p)))

\* the bytes are UTF-8 of code points below 2048
RECURSIVE IsUtf8(_)
IsUtf8(b) ==
    IF b = << >> THEN TRUE
    ELSE IF Head(b) < 128 THEN IsUtf8(Tail(b))
    ELSE /\ Head(b) \in 194..223
         /\ Len(b) >= 2
         /\ b[2] \in 128..191
         /\ IsUtf8(SubSeq(b, 3, Len(b)))
RECURSIVE utf8Decode(_)
utf8Decode(b) ==
    IF b = << >> THEN << >>
    ELSE IF Head(b) < 128 THEN <<Head(b)>> \o utf8Decode(Tail(b))
    ELSE <<(Head(b) - 192) * 64 + (b[2] - 128)>>
         \o utf8Decode(SubSeq(b, 3, Len(b)))
\* the text of the bytes: UTF-8, or one character per byte when they are
\* not UTF-8
textOf(b) == IF IsUtf8(b) THEN utf8Decode(b) ELSE b

\* JSON.parse of a text in the grammar of stringify's output: an object
\* of string and number members, a string or a number
Fail == [ok |-> FALSE, v |-> Num(0), rest |-> << >>]
Parsed(v, rest) == [ok |-> TRUE, v |-> v, rest |-> rest]
RECURSIVE scanString(_, _)
scanString(s, acc) ==
    IF s = << >> THEN Fail
    ELSE IF Head(s) = Quote THEN Parsed(Str(acc), Tail(s))
    ELSE IF Head(s) = Backslash
    THEN IF Len(s) >= 2 /\ s[2] \in {Quote, Backslash}
         THEN scanString(SubSeq(s, 3, Len(s)), Append(acc, s[2]))
         ELSE Fail
    ELSE IF Head(s) < 32 THEN Fail
    ELSE scanString(Tail(s), Append(acc, Head(s)))
RECURSIVE scanDigits(_, _)
scanDigits(s, n) ==
    IF s # << >> /\ Head(s) \in 48..57
    THEN scanDigits(Tail(s), 10 * n + (Head(s) - 48))
    ELSE Parsed(Num(n), s)
parseScalar(s) ==
    IF s = << >> THEN Fail
    ELSE IF Head(s) = Quote THEN scanString(Tail(s), << >>)
    ELSE IF Head(s) = 48 THEN Parsed(Num(0), Tail(s))
    ELSE IF Head(s) \in 49..57 THEN scanDigits(s, 0)
    ELSE Fail
RECURSIVE parseMembers(_, _)
memberValue(k, v, acc) ==
    IF ~v.ok \/ v.rest = << >> THEN Fail
    ELSE IF Head(v.rest) = 125
    THEN Parsed(Obj(Append(acc, [k |-> k.v.s, v |-> v.v])), Tail(v.rest))
    ELSE IF Head(v.rest) = 44
    THEN parseMembers(Tail(v.rest), Append(acc, [k |-> k.v.s, v |-> v.v]))
    ELSE Fail
memberKey(k, acc) ==
    IF ~k.ok \/ k.v.t # "str" \/ k.rest = << >> THEN Fail
    ELSE IF Head(k.rest) # 58 THEN Fail
    ELSE memberValue(k, parseScalar(Tail(k.rest)), acc)
parseMembers(s, acc) == memberKey(parseScalar(s), acc)
parseValue(s) ==
    IF s # << >> /\ Head(s) = 123
    THEN IF Len(s) >= 2 /\ s[2] = 125
         THEN Parsed(Obj(<< >>), SubSeq(s, 3, Len(s)))
         ELSE parseMembers(Tail(s), << >>)
    ELSE parseScalar(s)
whole(r) == IF r.ok /\ r.rest = << >> THEN r ELSE Fail
JSONparse(s) == whole(parseValue(s))

\* a segment of the string as the decoder sees it
\* a segment whose text does not parse taken as parsed all the same
segOfParsed_Lenient(j) == JsonSeg(j.v)

segOfParsed(j) == IF j.ok THEN JsonSeg(j.v) ELSE TextSeg
segOf(seg) ==
    IF ~IsBase64(padded(seg)) THEN RawSeg
    ELSE segOfParsed(JSONparse(textOf(fromBase64(padded(seg)))))
\* an argument that is not a string (null)
NullArg == <<-1>>
tokOf(str) ==
    IF str = NullArg THEN NonString
    ELSE [i \in 1..Len(split(str)) |-> segOf(split(str)[i])]
\* jwtDecode of the string
jwtDecodeText(str, header) == jwtDecode(tokOf(str), header)

\* -------------------------------------------------------------- manager
StorageTypes == {"session", "local"}
Keys == {"auth_token", "other_key"}
Hooks == {"noop", "requireSub"}

VARIABLES
    clock,        \* Date.now(), in milliseconds
    window,       \* window.sessionStorage and window.localStorage
    storageType,  \* JwtManager.#storageType
    key,          \* JwtManager.#key
    hook,         \* which customValidation the instance's class has
    debugMode,    \* JwtManager.debugMode (static)
    last          \* the last operation of the manager and what it gave

vars == <<clock, window, storageType, key, hook, debugMode, last>>

\* console messages
Info001 == "JWT 001"
Info002 == "JWT 002"
Warn021 == "JWT 021"

\* customValidation(_tokenData): the default is the empty method; a
\* subclass overrides it and throws to reject
customValidation(h, tokenData) ==
    IF h = "requireSub" /\ tokenData.sub = UNDEF THEN HookError ELSE NoErr

\* Math.floor(Date.now() / 1000)
currentTimeOf(ms) == ms \div MsPerSec

\* #isValidTime with the not-before comparison off by one
\* (currentTime <= decoded.nbf)
checkTime_NbfInclusive(d, currentTime, h, debug) ==
    IF d.err # NoErr
    THEN [err |-> d.err, hookArgs |-> << >>, log |-> << >>]
    ELSE IF Truthy(d.obj.nbf) /\ currentTime <= d.obj.nbf
    THEN [err |-> CriteriaNotBefore(d.obj.nbf, currentTime),
          hookArgs |-> << >>, log |-> << >>]
    ELSE IF ~Truthy(d.obj.exp)
    THEN [err |-> NoErr, hookArgs |-> << >>,
          log |-> IF debug THEN <<Warn021>> ELSE << >>]
    ELSE IF d.obj.exp <= currentTime
    THEN [err |-> TokenExpired(d.obj.exp, currentTime),
          hookArgs |-> << >>, log |-> << >>]
    ELSE [err |-> customValidation(h, d.obj),
          hookArgs |-> <<d.obj>>, log |-> << >>]

\* #isValidTime with the expiration comparison of the first version of
\* the manager (decoded.exp < currentTime)
checkTime_ExpExclusive(d, currentTime, h, debug) ==
    IF d.err # NoErr
    THEN [err |-> d.err, hookArgs |-> << >>, log |-> << >>]
    ELSE IF Truthy(d.obj.nbf) /\ currentTime < d.obj.nbf
    THEN [err |-> CriteriaNotBefore(d.obj.nbf, currentTime),
          hookArgs |-> << >>, log |-> << >>]
    ELSE IF ~Truthy(d.obj.exp)
    THEN [err |-> NoErr, hookArgs |-> << >>,
          log |-> IF debug THEN <<Warn021>> ELSE << >>]
    ELSE IF d.obj.exp < currentTime
    THEN [err |-> TokenExpired(d.obj.exp, currentTime),
          hookArgs |-> << >>, log |-> << >>]
    ELSE [err |-> customValidation(h, d.obj),
          hookArgs |-> <<d.obj>>, log |-> << >>]

\* #isValidTime without the early return for a token that has no exp: the
\* missing exp is compared with the time and the token counts as expired
checkTime_NoExpExpires(d, currentTime, h, debug) ==
    IF d.err # NoErr
    THEN [err |-> d.err, hookArgs |-> << >>, log |-> << >>]
    ELSE IF Truthy(d.obj.nbf) /\ currentTime < d.obj.nbf
    THEN [err |-> CriteriaNotBefore(d.obj.nbf, currentTime),
          hookArgs |-> << >>, log |-> << >>]
    ELSE IF d.obj.exp <= currentTime
    THEN [err |-> TokenExpired(d.obj.exp, currentTime),
          hookArgs |-> << >>, log |-> << >>]
    ELSE [err |-> customValidation(h, d.obj),
          hookArgs |-> <<d.obj>>, log |-> << >>]

\* #isValidTime with the expiration check before the not-before check
checkTime_ExpFirst(d, currentTime, h, debug) ==
    IF d.err # NoErr
    THEN [err |-> d.err, hookArgs |-> << >>, log |-> << >>]
    ELSE IF Truthy(d.obj.exp) /\ d.obj.exp <= currentTime
    THEN [err |-> TokenExpired(d.obj.exp, currentTime),
          hookArgs |-> << >>, log |-> << >>]
    ELSE IF Truthy(d.obj.nbf) /\ currentTime < d.obj.nbf
    THEN [err |-> CriteriaNotBefore(d.obj.nbf, currentTime),
          hookArgs |-> << >>, log |-> << >>]
    ELSE IF ~Truthy(d.obj.exp)
    THEN [err |-> NoErr, hookArgs |-> << >>,
          log |-> IF debug THEN <<Warn021>> ELSE << >>]
    ELSE [err |-> customValidation(h, d.obj),
          hookArgs |-> <<d.obj>>, log |-> << >>]

\* a validation that, in debug mode, rejects the token without exp that it
\* should only warn about
checkTime_DebugStrict(d, currentTime, h, debug) ==
    IF d.err # NoErr
    THEN [err |-> d.err, hookArgs |-> << >>, log |-> << >>]
    ELSE IF Truthy(d.obj.nbf) /\ currentTime < d.obj.nbf
    THEN [err |-> CriteriaNotBefore(d.obj.nbf, currentTime),
          hookArgs |-> << >>, log |-> << >>]
    ELSE IF ~Truthy(d.obj.exp)
    THEN [err |-> IF debug THEN TokenExpired(d.obj.exp, currentTime)
                  ELSE NoErr,
          hookArgs |-> << >>,
          log |-> IF debug THEN <<Warn021>> ELSE << >>]
    ELSE IF d.obj.exp <= currentTime
    THEN [err |-> TokenExpired(d.obj.exp, currentTime),
          hookArgs |-> << >>, log |-> << >>]
    ELSE [err |-> customValidation(h, d.obj),
          hookArgs |-> <<d.obj>>, log |-> << >>]

\* the body of JwtManager.#isValidTime after `decoded` (d: the outcome of
\* this.#decode(token)) and `currentTime` are computed: err is what it
\* throws (NoErr: it returns), hookArgs the arguments customValidation was
\* called with, log the console messages
checkTime(d, currentTime, h, debug) ==
    IF d.err # NoErr
    THEN [err |-> d.err, hookArgs |-> << >>, log |-> << >>]
    ELSE IF Truthy(d.obj.nbf) /\ currentTime < d.obj.nbf
    THEN [err |-> CriteriaNotBefore(d.obj.nbf, currentTime),
          hookArgs |-> << >>, log |-> << >>]
    ELSE IF ~Truthy(d.obj.exp)
    THEN [err |-> NoErr, hookArgs |-> << >>,
          log |-> IF debug THEN <<Warn021>> ELSE << >>]
    ELSE IF d.obj.exp <= currentTime
    THEN [err |-> TokenExpired(d.obj.exp, currentTime),
          hookArgs |-> << >>, log |-> << >>]
    ELSE [err |-> customValidation(h, d.obj),
          hookArgs |-> <<d.obj>>, log |-> << >>]

\* JwtManager.#isValidTime(token) at Date.now() = ms
isValidTime(token, ms, h, debug) ==
    checkTime(decode(token), currentTimeOf(ms), h, debug)

\* #storage that ignores the configured type
storageOf_AlwaysSession(w, type) == w.sessionStorage

\* JwtManager.#storage
storageOf(w, type) == IF type = "local" THEN w.localStorage
                      ELSE w.sessionStorage
withStorage(w, type, s) == IF type = "local"
                           THEN [w EXCEPT !.localStorage = s]
                           ELSE [w EXCEPT !.sessionStorage = s]

\* Storage.setItem / Storage.removeItem
setItem(s, k, v) == [s EXCEPT ![k] = v]
\* a removeItem that clears the whole storage
removeItem_Clear(s, k) == [x \in DOMAIN s |-> NULL]
removeItem(s, k) == [s EXCEPT ![k] = NULL]

\* what an operation that has not used a field leaves in it
Idle == [op |-> "none", prop |-> "", arg |-> NULL, stored |-> NULL,
         raised |-> NoErr, caught |-> NoErr, hookArgs |-> << >>,
         ret |-> NULL, retData |-> NoClaims, retNum |-> ABSENT,
         retStr |-> UNDEF, defined |-> FALSE, log |-> << >>]

\* constructor(key, storageType = 'session')
constructed(debug) ==
    [Idle EXCEPT !.op = "new",
                 !.log = IF debug THEN <<Info001>> ELSE << >>]

EmptyStorage == [k \in Keys |-> NULL]

Init ==
    /\ clock \in {t * TickMs : t \in 0..(MaxClock \div TickMs)}
    /\ window = [sessionStorage |-> EmptyStorage,
                 localStorage |-> EmptyStorage]
    /\ storageType \in StorageTypes
    /\ key = "auth_token"
    /\ hook \in Hooks
    /\ debugMode = FALSE
    /\ last = constructed(debugMode)

\* a setter that puts the storage type back to its default
Write_ResetsStorageType(value, v) ==
    /\ window' = IF v.err = NoErr
                 THEN withStorage(window, storageType,
                        setItem(storageOf(window, storageType), key, value))
                 ELSE window
    /\ last' = [Idle EXCEPT !.op = "set", !.arg = value,
                            !.stored = storageOf(window, storageType)[key],
                            !.raised = v.err, !.hookArgs = v.hookArgs,
                            !.log = v.log]
    /\ storageType' = "session"
    /\ UNCHANGED <<clock, key, hook, debugMode>>

\* set token(value) once the value is validated (v)
Write(value, v) ==
    /\ window' = IF v.err = NoErr
                 THEN withStorage(window, storageType,
                        setItem(storageOf(window, storageType), key, value))
                 ELSE window
    /\ last' = [Idle EXCEPT !.op = "set", !.arg = value,
                            !.stored = storageOf(window, storageType)[key],
                            !.raised = v.err, !.hookArgs = v.hookArgs,
                            !.log = v.log]
    /\ UNCHANGED <<clock, storageType, key, hook, debugMode>>

\* set token(value)
SetToken(value) == Write(value, isValidTime(value, clock, hook, debugMode))

\* the getter without its try/catch: the validation error escapes
getterOutcome_NoCatch(w, type, k, v) ==
    IF storageOf(w, type)[k] = NULL
    THEN [window |-> w, ret |-> NULL, raised |-> NoErr,
          caught |-> NoErr, hookArgs |-> << >>, log |-> << >>]
    ELSE IF v.err # NoErr
    THEN [window |-> w, ret |-> NULL, raised |-> v.err, caught |-> NoErr,
          hookArgs |-> v.hookArgs, log |-> v.log]
    ELSE [window |-> w, ret |-> storageOf(w, type)[k], raised |-> NoErr,
          caught |-> NoErr, hookArgs |-> v.hookArgs, log |-> v.log]

\* the getter that hands the token out once: it removes the entry it
\* returns
getterOutcome_ReadOnce(w, type, k, v) ==
    IF storageOf(w, type)[k] = NULL
    THEN [window |-> w, ret |-> NULL, raised |-> NoErr,
          caught |-> NoErr, hookArgs |-> << >>, log |-> << >>]
    ELSE IF v.err # NoErr
    THEN [window |-> withStorage(w, type,
                                 removeItem(storageOf(w, type), k)),
          ret |-> NULL, raised |-> NoErr, caught |-> v.err,
          hookArgs |-> v.hookArgs, log |-> v.log \o <<Info002>>]
    ELSE [window |-> withStorage(w, type,
                                 removeItem(storageOf(w, type), k)),
          ret |-> storageOf(w, type)[k], raised |-> NoErr,
          caught |-> NoErr, hookArgs |-> v.hookArgs, log |-> v.log]

\* get token() once the stored string is validated (v): what the getter
\* does to the storage, what it returns (ret), throws (raised) and catches
\* (caught)
\* a getter that removes the entry in a finally instead of the catch
getterOutcome_Finally(w, type, k, v) ==
    IF storageOf(w, type)[k] = NULL
    THEN [window |-> w, ret |-> NULL, raised |-> NoErr,
          caught |-> NoErr, hookArgs |-> << >>, log |-> << >>]
    ELSE [window |-> withStorage(w, type,
                                 removeItem(storageOf(w, type), k)),
          ret |-> IF v.err # NoErr THEN NULL ELSE storageOf(w, type)[k],
          raised |-> NoErr, caught |-> v.err, hookArgs |-> v.hookArgs,
          log |-> v.log \o <<Info002>>]

\* a getter that returns undefined on a failure and leaves the entry
getterOutcome_NoEvict(w, type, k, v) ==
    IF storageOf(w, type)[k] = NULL
    THEN [window |-> w, ret |-> NULL, raised |-> NoErr,
          caught |-> NoErr, hookArgs |-> << >>, log |-> << >>]
    ELSE IF v.err # NoErr
    THEN [window |-> w, ret |-> NULL, raised |-> NoErr, caught |-> v.err,
          hookArgs |-> v.hookArgs, log |-> v.log \o <<Info002>>]
    ELSE [window |-> w, ret |-> storageOf(w, type)[k], raised |-> NoErr,
          caught |-> NoErr, hookArgs |-> v.hookArgs, log |-> v.log]

\* a getter that swallows the failure but returns the string all the same
getterOutcome_ReturnsInvalid(w, type, k, v) ==
    IF storageOf(w, type)[k] = NULL
    THEN [window |-> w, ret |-> NULL, raised |-> NoErr,
          caught |-> NoErr, hookArgs |-> << >>, log |-> << >>]
    ELSE [window |-> w, ret |-> storageOf(w, type)[k], raised |-> NoErr,
          caught |-> v.err, hookArgs |-> v.hookArgs, log |-> v.log]

getterOutcome(w, type, k, v) ==
    IF storageOf(w, type)[k] = NULL
    THEN [window |-> w, ret |-> NULL, raised |-> NoErr,
          caught |-> NoErr, hookArgs |-> << >>, log |-> << >>]
    ELSE IF v.err # NoErr
    THEN [window |-> withStorage(w, type,
                                 removeItem(storageOf(w, type), k)),
          ret |-> NULL, raised |-> NoErr, caught |-> v.err,
          hookArgs |-> v.hookArgs, log |-> v.log \o <<Info002>>]
    ELSE [window |-> w, ret |-> storageOf(w, type)[k], raised |-> NoErr,
          caught |-> NoErr, hookArgs |-> v.hookArgs, log |-> v.log]

\* get token()
tokenGetter(w, type, k, ms, h, debug) ==
    getterOutcome(w, type, k,
                  isValidTime(storageOf(w, type)[k], ms, h, debug))

\* get data() once the token getter has run (g): #decode outside any try
\* a data getter that decodes the header of the token instead
dataOutcome_DecodesHeader(g) ==
    IF g.raised # NoErr \/ g.ret = NULL
    THEN [window |-> g.window, defined |-> FALSE, data |-> NoClaims,
          raised |-> g.raised, caught |-> g.caught,
          hookArgs |-> g.hookArgs, log |-> g.log]
    ELSE [window |-> g.window,
          defined |-> (jwtDecode(g.ret, TRUE).err = NoErr),
          data |-> jwtDecode(g.ret, TRUE).obj,
          raised |-> jwtDecode(g.ret, TRUE).err,
          caught |-> g.caught, hookArgs |-> g.hookArgs, log |-> g.log]

dataOutcome(g) ==
    IF g.raised # NoErr \/ g.ret = NULL
    THEN [window |-> g.window, defined |-> FALSE, data |-> NoClaims,
          raised |-> g.raised, caught |-> g.caught,
          hookArgs |-> g.hookArgs, log |-> g.log]
    ELSE [window |-> g.window, defined |-> (decode(g.ret).err = NoErr),
          data |-> decode(g.ret).obj, raised |-> decode(g.ret).err,
          caught |-> g.caught, hookArgs |-> g.hookArgs, log |-> g.log]

\* get data()
dataGetter(w, type, k, ms, h, debug) ==
    dataOutcome(tokenGetter(w, type, k, ms, h, debug))

\* the numeric claim accessors: this.data?.nbf, this.data?.exp,
\* this.data?.iat
NumAccessors == {"notBefore", "expirationTime", "issuedAt"}
numClaim(g, prop) ==
    IF ~g.defined THEN ABSENT
    ELSE CASE prop = "notBefore" -> g.data.nbf
           [] prop = "expirationTime" -> g.data.exp
           [] prop = "issuedAt" -> g.data.iat

\* the string claim accessors: this.data?.iss, .sub, .aud, .jti
StrAccessors == {"issuer", "subject", "audience", "jwtId"}
strClaim(g, prop) ==
    IF ~g.defined THEN UNDEF
    ELSE CASE prop = "issuer" -> g.data.iss
           [] prop = "subject" -> g.data.sub
           [] prop = "audience" -> g.data.aud
           [] prop = "jwtId" -> g.data.jti

\* a read of a property has run: the storage is what the getter left and
\* last is what the read gave
Read(op, prop, g, ret, data, num, str, defined) ==
    /\ window' = g.window
    /\ last' = [op |-> op, prop |-> prop, arg |-> NULL,
                stored |-> storageOf(window, storageType)[key],
                raised |-> g.raised, caught |-> g.caught,
                hookArgs |-> g.hookArgs, ret |-> ret, retData |-> data,
                retNum |-> num, retStr |-> str, defined |-> defined,
                log |-> g.log]
    /\ UNCHANGED <<clock, storageType, key, hook, debugMode>>

\* manager.token
ReadToken(g) ==
    Read("get", "", g, g.ret, NoClaims, ABSENT, UNDEF, g.ret # NULL)

GetToken ==
    ReadToken(tokenGetter(window, storageType, key, clock, hook, debugMode))

\* manager.data
ReadData(g) ==
    Read("data", "", g, NULL, g.data, ABSENT, UNDEF, g.defined)

GetData ==
    ReadData(dataGetter(window, storageType, key, clock, hook, debugMode))

\* manager.notBefore, manager.expirationTime, manager.issuedAt
ReadNumClaim(prop, g, n) ==
    Read("claim", prop, g, NULL, NoClaims, n, UNDEF, n # ABSENT)

GetNumClaim(prop) ==
    ReadNumClaim(prop,
        dataGetter(window, storageType, key, clock, hook, debugMode),
        numClaim(dataGetter(window, storageType, key, clock, hook,
                            debugMode), prop))

\* manager.issuer, manager.subject, manager.audience, manager.jwtId
ReadStrClaim(prop, g, v) ==
    Read("claim", prop, g, NULL, NoClaims, ABSENT, v, v # UNDEF)

GetStrClaim(prop) ==
    ReadStrClaim(prop,
        dataGetter(window, storageType, key, clock, hook, debugMode),
        strClaim(dataGetter(window, storageType, key, clock, hook,
                            debugMode), prop))

\* ------------------------------------------------- the readme's subclass
\* AppJwtManager extends JwtManager<PayloadOverload>: `get email()` is
\* this.data.email, and customValidation is the override of the readme's
\* "Using Custom Validation", which tests this.email and not its argument
Emails == {"a@example.com", "b@other.org"}
\* email.split('@')[1]
DomainOf(email) == IF email = "a@example.com" THEN "example.com"
                   ELSE "other.org"
\* PayloadOverload: exp and the email of the user
MkEmailClaims(exp, email) ==
    [MkClaims(ABSENT, exp, UNDEF) EXCEPT !.email = email]
ReadmePayloads == {MkEmailClaims(e, m) : e \in ClaimTimes,
                                         m \in Emails \cup {UNDEF}}
ReadmeTokens == {createMockJwt(p) : p \in ReadmePayloads}

\* reading a property of undefined (this.data.email, undefined.split)
TypeError == [type |-> "TypeError", detail |-> "undefined", a |-> 0,
              b |-> 0]

\* the time checks of #isValidTime alone: hookArgs tells whether
\* customValidation is reached
timeChecks(token, ms, debug) == isValidTime(token, ms, "noop", debug)

\* the override called while the entry holds a string whose time checks
\* gave v0.  this.email runs get data and get token on that entry:
\*  - no entry, or an entry that fails the time checks (evicted by the
\*    getter): this.data is undefined and this.data.email throws;
\*  - an entry that reaches customValidation: the override calls
\*    this.email again, without end, until the call stack overflows; the
\*    RangeError is caught by the getter below it, which removes the
\*    entry, and every getter on the way out finds this.data undefined;
\*  - an entry without exp: customValidation is not run for it, and the
\*    override tests the email of that stored token.
readmeValidation(w, type, k, v0) ==
    IF storageOf(w, type)[k] = NULL
    THEN [window |-> w, err |-> TypeError, log |-> << >>]
    ELSE IF v0.err # NoErr \/ v0.hookArgs # << >>
    THEN [window |-> withStorage(w, type,
                                 removeItem(storageOf(w, type), k)),
          err |-> TypeError, log |-> <<Info002>>]
    ELSE IF decode(storageOf(w, type)[k]).obj.email = UNDEF
    THEN [window |-> w, err |-> TypeError, log |-> v0.log]
    ELSE IF DomainOf(decode(storageOf(w, type)[k]).obj.email)
              # "example.com"
    THEN [window |-> w, err |-> HookError, log |-> v0.log]
    ELSE [window |-> w, err |-> NoErr, log |-> v0.log]

\* set token(value) of the subclass: v the time checks of the value, r the
\* override's outcome on the present entry
WriteReadme(value, v, r) ==
    /\ window' =
          IF v.err # NoErr THEN window
          ELSE IF v.hookArgs = << >>
          THEN withStorage(window, storageType,
                 setItem(storageOf(window, storageType), key, value))
          ELSE IF r.err # NoErr THEN r.window
          ELSE withStorage(r.window, storageType,
                 setItem(storageOf(r.window, storageType), key, value))
    /\ last' = [Idle EXCEPT
                  !.op = "set", !.arg = value,
                  !.stored = storageOf(window, storageType)[key],
                  !.raised = IF v.err # NoErr \/ v.hookArgs = << >>
                             THEN v.err ELSE r.err,
                  !.hookArgs = v.hookArgs,
                  !.log = IF v.err # NoErr \/ v.hookArgs = << >>
                          THEN v.log ELSE r.log]
    /\ UNCHANGED <<clock, storageType, key, hook, debugMode>>

SetTokenReadme(value) ==
    WriteReadme(value, timeChecks(value, clock, debugMode),
        readmeValidation(window, storageType, key,
            timeChecks(storageOf(window, storageType)[key], clock,
                       debugMode)))

\* get token() of the subclass: v0 the time checks of the entry, r the
\* override's outcome on it
ReadReadme(v0, r) ==
    /\ window' =
          IF storageOf(window, storageType)[key] = NULL THEN window
          ELSE IF v0.err # NoErr
          THEN withStorage(window, storageType,
                 removeItem(storageOf(window, storageType), key))
          ELSE IF v0.hookArgs = << >> THEN window
          ELSE IF r.err # NoErr
          THEN withStorage(r.window, storageType,
                 removeItem(storageOf(r.window, storageType), key))
          ELSE r.window
    /\ last' = [Idle EXCEPT
                  !.op = "get",
                  !.stored = storageOf(window, storageType)[key],
                  !.caught =
                     IF storageOf(window, storageType)[key] = NULL
                     THEN NoErr
                     ELSE IF v0.err # NoErr \/ v0.hookArgs = << >>
                     THEN v0.err ELSE r.err,
                  !.hookArgs =
                     IF storageOf(window, storageType)[key] = NULL
                     THEN << >> ELSE v0.hookArgs,
                  !.ret =
                     IF storageOf(window, storageType)[key] # NULL
                        /\ v0.err = NoErr
                        /\ (v0.hookArgs = << >> \/ r.err = NoErr)
                     THEN storageOf(window, storageType)[key]
                     ELSE NULL,
                  !.defined =
                     (storageOf(window, storageType)[key] # NULL
                        /\ v0.err = NoErr
                        /\ (v0.hookArgs = << >> \/ r.err = NoErr))]
    /\ UNCHANGED <<clock, storageType, key, hook, debugMode>>

GetTokenReadme ==
    ReadReadme(
        timeChecks(storageOf(window, storageType)[key], clock, debugMode),
        readmeValidation(window, storageType, key,
            timeChecks(storageOf(window, storageType)[key], clock,
                       debugMode)))

\* ---------------------------------------------------------- environment
\* time passes
Tick ==
    /\ clock + TickMs <= MaxClock
    /\ clock' = clock + TickMs
    /\ last' = Idle
    /\ UNCHANGED <<window, storageType, key, hook, debugMode>>

\* the clock is set (mock.timers, page.clock.setFixedTime, the user)
SetFixedTime(ms) ==
    /\ ms # clock
    /\ clock' = ms
    /\ last' = Idle
    /\ UNCHANGED <<window, storageType, key, hook, debugMode>>

\* other code of the page writes the entry itself
ExternalSetItem(value) ==
    /\ window' = withStorage(window, storageType,
                    setItem(storageOf(window, storageType), key, value))
    /\ last' = Idle
    /\ UNCHANGED <<clock, storageType, key, hook, debugMode>>

ExternalRemoveItem ==
    /\ storageOf(window, storageType)[key] # NULL
    /\ window' = withStorage(window, storageType,
                    removeItem(storageOf(window, storageType), key))
    /\ last' = Idle
    /\ UNCHANGED <<clock, storageType, key, hook, debugMode>>

Next ==
    \/ \E value \in Tokens : SetToken(value)
    \/ GetToken
    \/ GetData
    \/ \E prop \in NumAccessors : GetNumClaim(prop)
    \/ \E prop \in StrAccessors : GetStrClaim(prop)
    \/ Tick
    \/ \E t \in 0..(MaxClock \div TickMs) : SetFixedTime(t * TickMs)
    \/ \E value \in Tokens : ExternalSetItem(value)
    \/ ExternalRemoveItem

Spec == Init /\ [][Next]_vars

\* ---- a manager of any key and storage type over a storage that other
\* ---- code has filled
\* constructor(key, storageType = 'session'): the field for an argument
\* that is given or omitted
CtorArgs == {"session", "local", "omitted"}
constructorStorageType(arg) == IF arg = "omitted" THEN "session" ELSE arg

\* get storageType()
GetStorageType ==
    /\ last' = [Idle EXCEPT !.op = "storageType", !.retStr = storageType,
                            !.defined = TRUE]
    /\ UNCHANGED <<clock, window, storageType, key, hook, debugMode>>

FrameTokens == {createMockJwt(MkClaims(ABSENT, 1, "123")),
                createMockJwt(MkClaims(ABSENT, ABSENT, UNDEF))}
FrameStorages == [Keys -> FrameTokens \cup {NULL}]

InitFrame ==
    /\ clock \in {t * TickMs : t \in 0..(MaxClock \div TickMs)}
    /\ window \in [sessionStorage : FrameStorages,
                    localStorage : FrameStorages]
    /\ storageType \in {constructorStorageType(a) : a \in CtorArgs}
    /\ key \in Keys
    /\ hook \in Hooks
    /\ debugMode = FALSE
    /\ last = constructed(debugMode)

NextFrame ==
    \/ \E value \in FrameTokens \cup {Fubar} : SetToken(value)
    \/ GetToken
    \/ GetData
    \/ \E prop \in NumAccessors : GetNumClaim(prop)
    \/ \E prop \in StrAccessors : GetStrClaim(prop)
    \/ GetStorageType
    \/ Tick
    \/ \E t \in 0..(MaxClock \div TickMs) : SetFixedTime(t * TickMs)

SpecFrame == InitFrame /\ [][NextFrame]_vars

\* ---- the manager alone on its entry: no other code writes it
InitOwn ==
    /\ clock \in {t * TickMs : t \in 0..(MaxClock \div TickMs)}
    /\ window = [sessionStorage |-> EmptyStorage,
                 localStorage |-> EmptyStorage]
    /\ storageType = "session"
    /\ key = "auth_token"
    /\ hook \in Hooks
    /\ debugMode = FALSE
    /\ last = constructed(debugMode)

\* the operations of the manager
ManagerNext ==
    \/ \E value \in Tokens : SetToken(value)
    \/ GetToken
    \/ GetData
    \/ \E prop \in NumAccessors : GetNumClaim(prop)
    \/ \E prop \in StrAccessors : GetStrClaim(prop)

\* the clock may be set to any time, back included
NextOwn ==
    \/ ManagerNext
    \/ Tick
    \/ \E t \in 0..(MaxClock \div TickMs) : SetFixedTime(t * TickMs)

SpecOwn == InitOwn /\ [][NextOwn]_vars

\* the clock never goes backwards, the hook is the default no-op
InitMono == InitOwn /\ hook = "noop"

NextMono ==
    \/ ManagerNext
    \/ Tick

SpecMono == InitMono /\ [][NextMono]_vars

\* ---- two managers of the same hook, one per key, given tokens that
\* ---- differ in the signature segment only
\* a signature that is not base64url, and one that is the JSON of claims
\* with exp 0
SigSegs == {RawSeg, JsonSeg(MkClaims(ABSENT, 0, UNDEF))}
\* their payloads: nbf absent or 1, exp absent, 0 or MaxT, sub absent or not
SigPayloads == {MkClaims(n, e, u) : n \in {ABSENT, 1},
                                    e \in {ABSENT, 0, MaxT},
                                    u \in {UNDEF, "123"}}
withSignature(payload, sig) == <<HeaderSeg, JsonSeg(payload), sig>>
\* a setter that keeps an entry that is already there
setterOutcome_KeepsFirst(w, type, k, value, v) ==
    [window |-> IF v.err = NoErr /\ storageOf(w, type)[k] = NULL
                THEN withStorage(w, type, setItem(storageOf(w, type), k,
                                                  value))
                ELSE w,
     raised |-> v.err]

\* set token(value) as a function of the storage: v the validation of value
setterOutcome(w, type, k, value, v) ==
    [window |-> IF v.err = NoErr
                THEN withStorage(w, type, setItem(storageOf(w, type), k,
                                                  value))
                ELSE w,
     raised |-> v.err]

PairDone(op, ta, tb, a, b) ==
    /\ window' = b.window
    /\ last' = [op |-> op, ta |-> ta, tb |-> tb, a |-> a, b |-> b]
    /\ UNCHANGED <<clock, storageType, key, hook, debugMode>>

\* a.token = ta; b.token = tb
SetPairOf(ta, tb, a) ==
    PairDone("setPair", ta, tb, a,
        setterOutcome(a.window, storageType, "other_key", tb,
                      isValidTime(tb, clock, hook, debugMode)))
SetPair(payload, sig) ==
    SetPairOf(createMockJwt(payload), withSignature(payload, sig),
        setterOutcome(window, storageType, "auth_token",
                      createMockJwt(payload),
                      isValidTime(createMockJwt(payload), clock, hook,
                                  debugMode)))

\* a.token; b.token
GetPairOf(a) ==
    PairDone("getPair", storageOf(window, storageType)["auth_token"],
        storageOf(window, storageType)["other_key"], a,
        tokenGetter(a.window, storageType, "other_key", clock, hook,
                    debugMode))
GetPair ==
    GetPairOf(tokenGetter(window, storageType, "auth_token", clock, hook,
                          debugMode))

\* other code stores the two strings
ExternalSetPair(payload, sig) ==
    /\ window' = withStorage(window, storageType,
                     setItem(setItem(storageOf(window, storageType),
                                     "auth_token", createMockJwt(payload)),
                             "other_key", withSignature(payload, sig)))
    /\ last' = Idle
    /\ UNCHANGED <<clock, storageType, key, hook, debugMode>>

InitSig ==
    /\ clock \in {t * TickMs : t \in 0..(MaxClock \div TickMs)}
    /\ window = [sessionStorage |-> EmptyStorage,
                 localStorage |-> EmptyStorage]
    /\ storageType = "session"
    /\ key = "auth_token"
    /\ hook \in Hooks
    /\ debugMode = FALSE
    /\ last = Idle

NextSig ==
    \/ \E payload \in SigPayloads, sig \in SigSegs : SetPair(payload, sig)
    \/ GetPair
    \/ \E payload \in SigPayloads, sig \in SigSegs :
          ExternalSetPair(payload, sig)
    \/ Tick
    \/ \E t \in 0..(MaxClock \div TickMs) : SetFixedTime(t * TickMs)

SpecSig == InitSig /\ [][NextSig]_vars

\* ---- two managers "a" and "b" on the same key of the same backend; their
\* ---- operations are synchronous and interleave whole
Instances == {"a", "b"}
\* a has the hook of the run, b is a plain JwtManager
hookOf(who) == IF who = "a" THEN hook ELSE "noop"
\* written, writer: the value and the instance of the most recent
\* successful write
sharedDone(op, who, arg, ret, raised, caught, written, writer) ==
    [op |-> op, who |-> who, arg |-> arg, ret |-> ret, raised |-> raised,
     caught |-> caught, written |-> written, writer |-> writer]

SharedWrite(who, value, o) ==
    /\ window' = o.window
    /\ last' = sharedDone("set", who, value, NULL, o.raised, NoErr,
                   IF o.raised = NoErr THEN value ELSE last.written,
                   IF o.raised = NoErr THEN who ELSE last.writer)
    /\ UNCHANGED <<clock, storageType, key, hook, debugMode>>
\* who.token = value
SharedSet(who, value) ==
    SharedWrite(who, value,
        setterOutcome(window, storageType, key, value,
            isValidTime(value, clock, hookOf(who), debugMode)))

SharedRead(who, g) ==
    /\ window' = g.window
    /\ last' = sharedDone("get", who, NULL, g.ret, NoErr, g.caught,
                          last.written, last.writer)
    /\ UNCHANGED <<clock, storageType, key, hook, debugMode>>
\* who.token
SharedGet(who) ==
    SharedRead(who, tokenGetter(window, storageType, key, clock,
                                hookOf(who), debugMode))

SharedSetTime(ms) ==
    /\ ms # clock
    /\ clock' = ms
    /\ last' = [last EXCEPT !.op = "none"]
    /\ UNCHANGED <<window, storageType, key, hook, debugMode>>

InitShared ==
    /\ clock \in {t * TickMs : t \in 0..(MaxClock \div TickMs)}
    /\ window = [sessionStorage |-> EmptyStorage,
                 localStorage |-> EmptyStorage]
    /\ storageType \in StorageTypes
    /\ key = "auth_token"
    /\ hook \in Hooks
    /\ debugMode = FALSE
    /\ last = sharedDone("none", "", NULL, NULL, NoErr, NoErr, NULL, "")

NextShared ==
    \/ \E who \in Instances, payload \in SigPayloads :
          SharedSet(who, createMockJwt(payload))
    \/ \E who \in Instances : SharedGet(who)
    \/ \E t \in 0..(MaxClock \div TickMs) : SharedSetTime(t * TickMs)

SpecShared == InitShared /\ [][NextShared]_vars

\* ---- the same operations run twice, side by side: the first run on
\* ---- sessionStorage with JwtManager.debugMode as it is set, the second
\* ---- on localStorage with JwtManager.debugMode false
\* what a run of one operation gives: the storage it leaves, what it
\* returns or raises, and the console messages
runDone(w, ret, data, defined, raised, log) ==
    [window |-> w, ret |-> ret, data |-> data, defined |-> defined,
     raised |-> raised, log |-> log]
\* new JwtManager(key, storageType)
newRun(w, debug) ==
    runDone(w, NULL, NoClaims, FALSE, NoErr, constructed(debug).log)
\* manager.token = value (v: the validation, o: the setter)
setRun(o, v) == runDone(o.window, NULL, NoClaims, FALSE, o.raised, v.log)
\* manager.token
tokenRun(g) ==
    runDone(g.window, g.ret, NoClaims, g.ret # NULL, g.raised, g.log)
\* manager.data
dataRun(g) ==
    runDone(g.window, NULL, g.data, g.defined, g.raised, g.log)

\* the observable part of a run
shown(r) == [ret |-> r.ret, data |-> r.data, defined |-> r.defined,
             raised |-> r.raised, log |-> r.log]

\* one operation has run in both runs
BothRun(op, arg, r1, r2) ==
    /\ window' = [sessionStorage |-> r1.window.sessionStorage,
                  localStorage |-> r2.window.localStorage]
    /\ last' = [op |-> op, arg |-> arg, first |-> shown(r1),
                second |-> shown(r2)]
    /\ UNCHANGED <<clock, storageType, key, hook, debugMode>>

DebugNew ==
    BothRun("new", NULL, newRun(window, debugMode), newRun(window, FALSE))

DebugSet(value) ==
    BothRun("set", value,
        setRun(setterOutcome(window, "session", key, value,
                   isValidTime(value, clock, hook, debugMode)),
               isValidTime(value, clock, hook, debugMode)),
        setRun(setterOutcome(window, "local", key, value,
                   isValidTime(value, clock, hook, FALSE)),
               isValidTime(value, clock, hook, FALSE)))

DebugGet ==
    BothRun("get", NULL,
        tokenRun(tokenGetter(window, "session", key, clock, hook,
                             debugMode)),
        tokenRun(tokenGetter(window, "local", key, clock, hook, FALSE)))

DebugData ==
    BothRun("data", NULL,
        dataRun(dataGetter(window, "session", key, clock, hook,
                           debugMode)),
        dataRun(dataGetter(window, "local", key, clock, hook, FALSE)))

\* JwtManager.debugMode = !JwtManager.debugMode, between two operations
ToggleDebug ==
    /\ debugMode' = ~debugMode
    /\ last' = [last EXCEPT !.op = "none"]
    /\ UNCHANGED <<clock, window, storageType, key, hook>>

DebugSetTime(ms) ==
    /\ ms # clock
    /\ clock' = ms
    /\ last' = [last EXCEPT !.op = "none"]
    /\ UNCHANGED <<window, storageType, key, hook, debugMode>>

\* the entry both runs start with
DebugEntries ==
    {NULL, Fubar} \cup {createMockJwt(p) : p \in SigPayloads}
DebugStorage(e) == [EmptyStorage EXCEPT !["auth_token"] = e]

InitDebug ==
    /\ clock \in {t * TickMs : t \in 0..(MaxClock \div TickMs)}
    /\ \E e \in DebugEntries :
          window = [sessionStorage |-> DebugStorage(e),
                    localStorage |-> DebugStorage(e)]
    /\ storageType = "session"
    /\ key = "auth_token"
    /\ hook \in Hooks
    /\ debugMode \in BOOLEAN
    /\ last = [op |-> "none", arg |-> NULL,
               first |-> shown(newRun(window, FALSE)),
               second |-> shown(newRun(window, FALSE))]

NextDebug ==
    \/ DebugNew
    \/ \E value \in DebugEntries \ {NULL} : DebugSet(value)
    \/ DebugGet
    \/ DebugData
    \/ ToggleDebug
    \/ \E t \in 0..(MaxClock \div TickMs) : DebugSetTime(t * TickMs)

SpecDebug == InitDebug /\ [][NextDebug]_vars

\* ---- the codec alone: createMockJwt applied to a claim mapping, jwtDecode
\* ---- applied to a string
\* 'a', '"', '?', 'e' with an acute accent
CodecChars == {97, Quote, 63, 233}
CodecStrings == UNION {[1..n -> CodecChars] : n \in 0..MaxStrLen}
CodecValues == {Num(n) : n \in {0, 7, 120}}
               \cup {Str(x) : x \in CodecStrings}
CodecKeys == {<<97>>, <<Backslash, 233>>}
CodecClaims ==
    {Obj(<< >>)}
    \cup {Obj(<<[k |-> k, v |-> v]>>) : k \in CodecKeys, v \in CodecValues}
    \cup {Obj(<<[k |-> m[1], v |-> m[2]], [k |-> m[3], v |-> m[4]]>>) :
            m \in {n \in CodecKeys \X CodecValues \X CodecKeys
                           \X CodecValues : n[1] # n[3]}}

\* "fubar", "FAKE_TOKEN", and the segments "", "FAKE", "TOKEN", "TOKEN2",
\* "e30" and the mock header joined by dots
FubarText == <<102, 117, 98, 97, 114>>
FakeTokenText == <<70, 65, 75, 69, 95, 84, 79, 75, 69, 78>>
SegPool == {<< >>, <<70, 65, 75, 69>>, <<84, 79, 75, 69, 78>>,
            <<84, 79, 75, 69, 78, 50>>, base64Encode(Obj(<< >>)),
            base64Encode(MockHeader)}
RECURSIVE joinDots(_)
joinDots(q) == IF Len(q) = 1 THEN Head(q)
               ELSE Head(q) \o <<Dot>> \o joinDots(Tail(q))
CodecTexts ==
    {NullArg, FubarText, FakeTokenText}
    \cup {joinDots(q) : q \in UNION {[1..n -> SegPool] :
                                      n \in 1..MaxSegments}}

NoResult == [err |-> NoErr, obj |-> NoClaims]
claimsInput(c) == [op |-> "claims", claims |-> c, made |-> FALSE,
                   text |-> << >>, header |-> FALSE, result |-> NoResult]
textInput(t) == [op |-> "text", claims |-> Obj(<< >>), made |-> FALSE,
                 text |-> t, header |-> FALSE, result |-> NoResult]

InitCodec ==
    /\ clock = 0
    /\ window = EmptyStorage
    /\ storageType = "session"
    /\ key = "auth_token"
    /\ hook = "noop"
    /\ debugMode = FALSE
    /\ last \in {claimsInput(c) : c \in CodecClaims}
                \cup {textInput(t) : t \in CodecTexts}

\* createMockJwt(claims)
MockJwt ==
    /\ last.op = "claims"
    /\ last' = [last EXCEPT !.op = "text", !.made = TRUE,
                   !.text = createMockJwtText(last.claims, MockSecret)]
    /\ UNCHANGED <<clock, window, storageType, key, hook, debugMode>>

\* jwtDecode(text, {header})
Decode(header) ==
    /\ last.op = "text"
    /\ last' = [last EXCEPT !.op = "decoded", !.header = header,
                   !.result = jwtDecodeText(last.text, header)]
    /\ UNCHANGED <<clock, window, storageType, key, hook, debugMode>>

NextCodec ==
    \/ MockJwt
    \/ \E header \in BOOLEAN : Decode(header)

SpecCodec == InitCodec /\ [][NextCodec]_vars

\* ---- the calls of one operation, frame by frame: the setter, and the
\* ---- getters that a hook reading this.email nests below it
StackLimit == 3      \* getter frames the call stack holds
CallHooks == Hooks \cup {"readme"}
RangeError == [type |-> "RangeError", detail |-> "call stack", a |-> 0,
               b |-> 0]
\* the operation op is at pc in frame depth (0 the setter, 1.. the getters)
callStart(op, arg, pc, depth) ==
    [op |-> op, arg |-> arg, pc |-> pc, depth |-> depth, exc |-> NoErr,
     validations |-> 0, accesses |-> 0, hookCalls |-> 0, ret |-> NULL,
     raised |-> NoErr, log |-> << >>]
InCall(pc) == last.op \in {"get", "set"} /\ last.pc = pc
Quiet == IF last.op \in {"get", "set"} THEN last.pc = "done" ELSE TRUE
entryNow == storageOf(window, storageType)[key]
CallFrame == UNCHANGED <<clock, storageType, key, hook, debugMode>>

\* manager.token
BeginGet ==
    /\ Quiet
    /\ last' = callStart("get", NULL, "enter", 1)
    /\ UNCHANGED window
    /\ CallFrame

\* manager.token = value
BeginSet(value) ==
    /\ Quiet
    /\ last' = callStart("set", value, "setter", 0)
    /\ UNCHANGED window
    /\ CallFrame

\* set token(value): this.#isValidTime(value), v its outcome; the readme's
\* hook reads this.email, which enters the getter
SetterOf(v) ==
    /\ IF v.err = NoErr /\ v.hookArgs # << >> /\ hook = "readme"
       THEN /\ last' = [last EXCEPT !.pc = "enter", !.depth = 1,
                                    !.validations = @ + 1,
                                    !.hookCalls = @ + 1]
            /\ UNCHANGED window
       ELSE IF v.err # NoErr
       THEN /\ last' = [last EXCEPT !.pc = "done", !.raised = v.err,
                          !.validations = @ + 1,
                          !.hookCalls = @ + Len(v.hookArgs)]
            /\ UNCHANGED window
       ELSE /\ last' = [last EXCEPT !.pc = "done",
                          !.validations = @ + 1,
                          !.hookCalls = @ + Len(v.hookArgs),
                          !.accesses = @ + 1, !.log = v.log]
            /\ window' = withStorage(window, storageType,
                            setItem(storageOf(window, storageType), key,
                                    last.arg))
    /\ CallFrame
Setter ==
    /\ InCall("setter")
    /\ SetterOf(isValidTime(last.arg, clock, hook, debugMode))

\* get token() in frame last.depth: getItem, this.#isValidTime(token) with
\* outcome v, the catch; a frame beyond the stack's limit is a RangeError
\* in the frame above
EnterOf(v) ==
    /\ IF last.depth > StackLimit
       THEN /\ last' = [last EXCEPT !.pc = "throw", !.depth = @ - 1,
                                    !.exc = RangeError]
            /\ UNCHANGED window
       ELSE IF entryNow = NULL
       THEN /\ last' = [last EXCEPT !.pc = "retUndef",
                                    !.accesses = @ + 1]
            /\ UNCHANGED window
       ELSE IF v.err = NoErr /\ v.hookArgs # << >> /\ hook = "readme"
       THEN /\ last' = [last EXCEPT !.pc = "enter", !.depth = @ + 1,
                          !.accesses = @ + 1, !.validations = @ + 1,
                          !.hookCalls = @ + 1]
            /\ UNCHANGED window
       ELSE IF v.err # NoErr
       THEN /\ last' = [last EXCEPT !.pc = "retUndef",
                          !.accesses = @ + 2, !.validations = @ + 1,
                          !.hookCalls = @ + Len(v.hookArgs),
                          !.log = @ \o <<Info002>>]
            /\ window' = withStorage(window, storageType,
                            removeItem(storageOf(window, storageType),
                                       key))
       ELSE /\ last' = [last EXCEPT !.pc = "retToken",
                          !.accesses = @ + 1, !.validations = @ + 1,
                          !.hookCalls = @ + Len(v.hookArgs),
                          !.log = @ \o v.log]
            /\ UNCHANGED window
    /\ CallFrame
Enter ==
    /\ InCall("enter")
    /\ EnterOf(isValidTime(entryNow, clock, hook, debugMode))

\* the getter of frame last.depth has returned undefined: to the caller of
\* manager.token, or to this.data.email of the hook in the frame above
RetUndef ==
    /\ InCall("retUndef")
    /\ last' = IF last.depth = 1 /\ last.op = "get"
               THEN [last EXCEPT !.pc = "done", !.depth = 0]
               ELSE [last EXCEPT !.pc = "throw", !.depth = @ - 1,
                                 !.exc = TypeError]
    /\ UNCHANGED window
    /\ CallFrame

\* the getter of frame last.depth has returned the entry: to the caller of
\* manager.token, or to the hook in the frame above, which tests the
\* domain of its email and lets #isValidTime of that frame return
RetToken ==
    /\ InCall("retToken")
    /\ IF last.depth = 1 /\ last.op = "get"
       THEN /\ last' = [last EXCEPT !.pc = "done", !.depth = 0,
                                    !.ret = entryNow]
            /\ UNCHANGED window
       ELSE IF decode(entryNow).obj.email = UNDEF
       THEN /\ last' = [last EXCEPT !.pc = "throw", !.depth = @ - 1,
                                    !.exc = TypeError]
            /\ UNCHANGED window
       ELSE IF DomainOf(decode(entryNow).obj.email) # "example.com"
       THEN /\ last' = [last EXCEPT !.pc = "throw", !.depth = @ - 1,
                                    !.exc = HookError]
            /\ UNCHANGED window
       ELSE IF last.depth = 1
       THEN /\ last' = [last EXCEPT !.pc = "done", !.depth = 0,
                                    !.accesses = @ + 1]
            /\ window' = withStorage(window, storageType,
                            setItem(storageOf(window, storageType), key,
                                    last.arg))
       ELSE /\ last' = [last EXCEPT !.depth = @ - 1]
            /\ UNCHANGED window
    /\ CallFrame

\* an exception reaches frame last.depth: the setter lets it out, a getter
\* catches it, removes the entry and returns undefined
Throw ==
    /\ InCall("throw")
    /\ IF last.depth = 0
       THEN /\ last' = [last EXCEPT !.pc = "done", !.raised = last.exc,
                                    !.exc = NoErr]
            /\ UNCHANGED window
       ELSE /\ last' = [last EXCEPT !.pc = "retUndef", !.exc = NoErr,
                          !.accesses = @ + 1, !.log = @ \o <<Info002>>]
            /\ window' = withStorage(window, storageType,
                            removeItem(storageOf(window, storageType),
                                       key))
    /\ CallFrame

\* between two operations the clock moves and other code writes the entry
BetweenCalls ==
    /\ Quiet
    /\ \/ Tick
       \/ \E value \in ReadmeTokens : ExternalSetItem(value)

InitCalls ==
    /\ clock \in {t * TickMs : t \in 0..(MaxClock \div TickMs)}
    /\ window = [sessionStorage |-> EmptyStorage,
                 localStorage |-> EmptyStorage]
    /\ storageType = "session"
    /\ key = "auth_token"
    /\ hook \in CallHooks
    /\ debugMode = FALSE
    /\ last = constructed(debugMode)

NextCalls ==
    \/ BeginGet
    \/ \E value \in ReadmeTokens \cup {Fubar} : BeginSet(value)
    \/ Setter
    \/ Enter
    \/ RetUndef
    \/ RetToken
    \/ Throw
    \/ BetweenCalls

SpecCalls == InitCalls /\ [][NextCalls]_vars
\* the manager is an AppJwtManager with the readme's override
InitReadme ==
    /\ clock \in {t * TickMs : t \in 0..(MaxClock \div TickMs)}
    /\ window = [sessionStorage |-> EmptyStorage,
                 localStorage |-> EmptyStorage]
    /\ storageType \in StorageTypes
    /\ key = "auth_token"
    /\ hook = "readme"
    /\ debugMode = FALSE
    /\ last = constructed(debugMode)

NextReadme ==
    \/ \E value \in ReadmeTokens \cup MalformedTokens :
          SetTokenReadme(value)
    \/ GetTokenReadme
    \/ Tick
    \/ \E t \in 0..(MaxClock \div TickMs) : SetFixedTime(t * TickMs)
    \/ \E value \in ReadmeTokens \cup MalformedTokens :
          ExternalSetItem(value)
    \/ ExternalRemoveItem

SpecReadme == InitReadme /\ [][NextReadme]_vars

TypeOK ==
    /\ clock \in 0..MaxClock
    /\ storageType \in StorageTypes
    /\ key \in Keys
    /\ hook \in Hooks
    /\ debugMode \in BOOLEAN
    /\ \A k \in Keys : /\ window.sessionStorage[k] \in Tokens \cup {NULL}
                       /\ window.localStorage[k] \in Tokens \cup {NULL}

\* ---------------------------------------------------------------------
\* The properties
\* ---------------------------------------------------------------------
\* the entry under the manager's key in its storage, and the time in seconds
Entry == storageOf(window, storageType)[key]
Now == currentTimeOf(clock)

\* the last operation was a read (token, data or a claim accessor)
IsRead == last.op \in {"get", "data", "claim"}
\* the last operation validated a string: the setter its argument, a read
\* the stored string
Validating == last.op = "set" \/ (IsRead /\ last.stored # NULL)
Validated == IF last.op = "set" THEN last.arg ELSE last.stored
\* the error the validation of that string ended with
ValidationErr == IF last.op = "set" THEN last.raised ELSE last.caught

\* the validation as specified: decode, then not-before (nbf present and
\* now < nbf), then expiration (exp present and now >= exp), then the hook
Decodes(token) == decode(token).err = NoErr
ClaimsOf(token) == decode(token).obj
NotYetValid(c, now) == c.nbf # ABSENT /\ now < c.nbf
Expired(c, now) == c.exp # ABSENT /\ now >= c.exp
HookAccepts(h, c) == customValidation(h, c) = NoErr
PassesValidation(token, now, h) ==
    /\ Decodes(token)
    /\ ~NotYetValid(ClaimsOf(token), now)
    /\ ~Expired(ClaimsOf(token), now)
    /\ HookAccepts(h, ClaimsOf(token))

\* C1: setting the token writes to storage if and only if the validation
\* (decode, not-before, expiration, custom hook) of the value passes at
\* that time; on success the entry under the key is the given string, on
\* failure the entry is as it was before the call.
C1_SetStoresIffValid ==
    last.op = "set" =>
        /\ (last.raised = NoErr) <=> PassesValidation(last.arg, Now, hook)
        /\ PassesValidation(last.arg, Now, hook) => Entry = last.arg
        /\ ~PassesValidation(last.arg, Now, hook) => Entry = last.stored

\* C2: the token getter never returns a string that fails validation at
\* the time of the read (not-before, expiration or the custom hook); on
\* every such failure the entry is removed and the getter returns absent
\* without raising.
C2_GetNeverReturnsInvalid ==
    (last.op = "get" /\ last.stored # NULL) =>
        /\ last.raised = NoErr
        /\ last.ret # NULL => PassesValidation(last.ret, Now, hook)
        /\ ~PassesValidation(last.stored, Now, hook) =>
               (last.ret = NULL /\ Entry = NULL)

\* C3: the token getter never raises, whatever the storage entry holds; a
\* structurally malformed stored string (missing segment, invalid base64,
\* invalid JSON) makes it return absent and remove the entry.
C3_GetNeverRaises ==
    last.op = "get" =>
        /\ last.raised = NoErr
        /\ (last.stored # NULL /\ ~Decodes(last.stored)) =>
               (last.ret = NULL /\ Entry = NULL)

C3_Witness ==
    /\ last.op = "get"
    /\ last.stored \in MalformedTokens
    /\ last.caught.type = "InvalidTokenError"
    /\ last.raised = NoErr
    /\ last.ret = NULL
    /\ Entry = NULL

\* C4: on the write path every failure is raised to the caller: a malformed
\* value raises the decode error, a value with now < nbf raises
\* CriteriaNotBefore(nbf, now), a value with exp <= now raises
\* TokenExpired(exp, now), and an error raised by the custom hook reaches
\* the caller unchanged.
C4_SetRaisesEveryFailure ==
    last.op = "set" =>
        LET c == ClaimsOf(last.arg) IN
        /\ ~Decodes(last.arg) => last.raised = decode(last.arg).err
        /\ (Decodes(last.arg) /\ NotYetValid(c, Now)) =>
               last.raised = CriteriaNotBefore(c.nbf, Now)
        /\ (Decodes(last.arg) /\ ~NotYetValid(c, Now) /\ Expired(c, Now)) =>
               last.raised = TokenExpired(c.exp, Now)
        /\ last.hookArgs # << >> =>
               last.raised = customValidation(hook, last.hookArgs[1])

\* C5: expiration is inclusive of the boundary: for a token whose payload
\* has an exp claim (any numeric value, including 0) and no not-before
\* violation, validation at time now fails with Expired whenever
\* now >= exp, and does not fail with Expired when now < exp.
C5_ExpirationInclusive ==
    (Validating /\ Decodes(Validated)) =>
        LET c == ClaimsOf(Validated) IN
        (c.exp # ABSENT /\ ~NotYetValid(c, Now)) =>
            ((ValidationErr = TokenExpired(c.exp, Now)) <=> (Now >= c.exp))

\* the claims of the string the last operation validated
VC == ClaimsOf(Validated)
\* the last operation read the token of a stored, decodable string
GotStored == last.op = "get" /\ last.stored # NULL /\ Decodes(last.stored)
\* the last operation set a decodable value
SetDecodable == last.op = "set" /\ Decodes(last.arg)

C7_ExpiresOnRead_Claimed ==
    /\ (SetDecodable /\ VC.exp # ABSENT /\ VC.exp > Now) =>
          (last.raised = NoErr /\ Entry = last.arg)
    /\ (GotStored /\ VC.exp >= 1 /\ Now < VC.exp
          /\ ~NotYetValid(VC, Now) /\ HookAccepts(hook, VC)) =>
          (last.ret = last.stored /\ Entry = last.stored)
    /\ (GotStored /\ VC.exp >= 1 /\ Now >= VC.exp) =>
          (last.ret = NULL /\ Entry = NULL /\ last.raised = NoErr)

\* C7 as amended: for all claim sets with exp = now + k (k > 0), whose nbf
\* is absent or not after now and which the custom hook accepts, written
\* at time now, the write succeeds; a read while exp is in the future
\* returns the token; a read at or after exp returns absent and leaves
\* the key absent from storage.
C7_ExpiresOnRead ==
    /\ (SetDecodable /\ VC.exp # ABSENT /\ VC.exp > Now
          /\ ~NotYetValid(VC, Now) /\ HookAccepts(hook, VC)) =>
          (last.raised = NoErr /\ Entry = last.arg)
    /\ (GotStored /\ VC.exp >= 1 /\ Now < VC.exp
          /\ ~NotYetValid(VC, Now) /\ HookAccepts(hook, VC)) =>
          (last.ret = last.stored /\ Entry = last.stored)
    /\ (GotStored /\ VC.exp >= 1 /\ Now >= VC.exp) =>
          (last.ret = NULL /\ Entry = NULL /\ last.raised = NoErr)

\* a stored token is read at exactly its exp second: absent, and evicted
C7_Witness ==
    /\ GotStored
    /\ last.stored \in MockTokens
    /\ VC.exp >= 1 /\ Now = VC.exp /\ ~NotYetValid(VC, Now)
    /\ last.caught = TokenExpired(VC.exp, Now)
    /\ last.ret = NULL
    /\ Entry = NULL

C9_ValidationOrder ==
    Validating =>
        /\ last.hookArgs # << >> =>
               (Decodes(Validated) /\ ~NotYetValid(VC, Now)
                  /\ ~Expired(VC, Now))
        /\ (Decodes(Validated) /\ NotYetValid(VC, Now)
               /\ Expired(VC, Now)) =>
               ValidationErr = CriteriaNotBefore(VC.nbf, Now)

\* a stored token that is both not yet valid and expired is read
C9_Witness ==
    /\ GotStored
    /\ NotYetValid(VC, Now) /\ Expired(VC, Now)
    /\ last.caught = CriteriaNotBefore(VC.nbf, Now)
    /\ last.hookArgs = << >>
    /\ last.ret = NULL

\* C10: whenever the temporal checks pass, the custom hook is invoked with
\* the decoded claims, on the write and on the read path, with exp in the
\* future and with exp absent; a hook that rejects a token blocks its
\* storage and its return.
C10_HookRunsWhenTimeOk ==
    (Validating /\ Decodes(Validated) /\ ~NotYetValid(VC, Now)
       /\ ~Expired(VC, Now)) =>
        /\ last.hookArgs = <<VC>>
        /\ ~HookAccepts(hook, VC) =>
               (ValidationErr = customValidation(hook, VC)
                  /\ last.ret = NULL
                  /\ (last.op = "set" => Entry = last.stored)
                  /\ (IsRead => Entry = NULL))

\* the readme's rule on the claims of a token: the email is of example.com
EmailOk(c) == c.email # UNDEF /\ DomainOf(c.email) = "example.com"
\* the time checks pass for the claims
TimeOk(c, now) == ~NotYetValid(c, now) /\ ~Expired(c, now)

\* C11: with the customValidation override of the readme, which reads
\* this.email, the hook decides on the claims of the token being
\* validated: on an empty store, setting a temporally valid token whose
\* email satisfies the rule succeeds and stores it, a later read returns
\* it, and a token whose email violates the rule is rejected.  Stated for
\* the tokens whose exp is in the future, for which the hook is run.
C11_ReadmeHookDecidesOnArgument ==
    /\ (SetDecodable /\ last.stored = NULL /\ TimeOk(VC, Now)
          /\ VC.exp > Now) =>
          /\ EmailOk(VC) => (last.raised = NoErr /\ Entry = last.arg)
          /\ ~EmailOk(VC) => (last.raised # NoErr /\ Entry = NULL)
    /\ (GotStored /\ TimeOk(VC, Now) /\ VC.exp > Now /\ EmailOk(VC)) =>
          (last.ret = last.stored /\ Entry = last.stored)

\* C12: idempotent read: a read of a stored token that is valid at that
\* time (decodes, not before its nbf, not expired, accepted by the hook)
\* returns the stored string and changes no entry of the storage; a read
\* that follows a read which returned a string returns the same string.
C12_IdempotentRead ==
    [][(last'.op = "get" /\ Entry # NULL
          /\ PassesValidation(Entry, Now, hook)) =>
         /\ last'.ret = Entry
         /\ window' = window
         /\ (last.op = "get" /\ last.ret # NULL) => last'.ret = last.ret
      ]_vars

\* a read returned a token with a future exp and left it stored
C12_Witness ==
    /\ GotStored
    /\ VC.exp > Now
    /\ PassesValidation(last.stored, Now, hook)
    /\ last.ret = last.stored
    /\ Entry = last.ret

\* the last step was an operation of the manager on its token
ManagerOp == {"set", "get", "data", "claim"}

\* C13: every storage access of a manager constructed with "local" (the
\* read of the entry, a write, an eviction) goes to window.localStorage
\* and leaves window.sessionStorage untouched; that of a manager
\* constructed with "session" or without storage type goes to
\* window.sessionStorage and leaves window.localStorage untouched.
C13_StorageTypeSelection ==
    [][last'.op \in ManagerOp =>
         /\ storageType = "local" =>
               /\ window'.sessionStorage = window.sessionStorage
               /\ last'.stored = window.localStorage[key]
               /\ (last'.op = "set" /\ last'.raised = NoErr) =>
                      window'.localStorage[key] = last'.arg
               /\ (last'.op # "set" /\ last'.caught # NoErr) =>
                      window'.localStorage[key] = NULL
         /\ storageType = "session" =>
               /\ window'.localStorage = window.localStorage
               /\ last'.stored = window.sessionStorage[key]
               /\ (last'.op = "set" /\ last'.raised = NoErr) =>
                      window'.sessionStorage[key] = last'.arg
               /\ (last'.op # "set" /\ last'.caught # NoErr) =>
                      window'.sessionStorage[key] = NULL
         /\ storageType \in StorageTypes
         /\ constructorStorageType("omitted") = "session"
      ]_vars

\* a "local" manager has stored a token while the session storage holds
\* another string under the same key
C13_Witness ==
    /\ last.op = "set"
    /\ storageType = "local"
    /\ last.raised = NoErr
    /\ window.localStorage[key] = last.arg
    /\ window.sessionStorage[key] # NULL
    /\ window.sessionStorage[key] # last.arg

\* C14: the key and the storage type are fixed at construction (the type
\* "session" by default); no operation, successful or failing, changes
\* them, and the storageType property returns the constructed value.
C14_ConfigFixed ==
    [][/\ key' = key
       /\ storageType' = storageType
       /\ last'.op = "storageType" => last'.retStr = storageType
      ]_vars

\* a manager of the other key on the local storage after a failed write
C14_Witness ==
    /\ last.op = "set"
    /\ last.raised # NoErr
    /\ storageType = "local"
    /\ key = "other_key"

\* what manager.token gives in the current state
TokenRead == tokenGetter(window, storageType, key, clock, hook, debugMode)

ClaimValue(c, prop) ==
    CASE prop = "issuer" -> c.iss
      [] prop = "subject" -> c.sub
      [] prop = "audience" -> c.aud
      [] prop = "jwtId" -> c.jti
      [] prop = "notBefore" -> c.nbf
      [] prop = "issuedAt" -> c.iat
      [] prop = "expirationTime" -> c.exp
Returned(l) == IF l.prop \in NumAccessors THEN l.retNum ELSE l.retStr
AbsentFor(prop) == IF prop \in NumAccessors THEN ABSENT ELSE UNDEF

\* C16: a claim accessor returns the value of its claim in the stored
\* token when the token read gives that token, and absent when the token
\* read gives absent; it never returns a claim of a token that is expired
\* (exp present and now >= exp) at the time of the access.
C16_AccessorsProject ==
    [][last'.op = "claim" =>
         /\ TokenRead.ret = NULL =>
               Returned(last') = AbsentFor(last'.prop)
         /\ TokenRead.ret # NULL =>
               Returned(last') = ClaimValue(ClaimsOf(Entry), last'.prop)
         /\ (Entry # NULL /\ Decodes(Entry)
               /\ Expired(ClaimsOf(Entry), Now)) => ~last'.defined
      ]_vars

\* the dot-separated segments of the string decoded
Segments == split(last.text)
DecodedOk == last.op = "decoded" /\ last.result.err = NoErr

PartNo == IF last.header THEN 1 ELSE 2
PartText == split(last.text)[PartNo]
PartJson == JSONparse(textOf(fromBase64(padded(PartText))))

\* C18: the decoder fails on a non-string argument as invalid input before
\* anything else; otherwise on the requested part (#1 for the header, #2
\* by default) as missing when the split has no such part, else as invalid
\* base64, else as invalid JSON, naming the part; a failure returns no
\* data, a success returns the parsed part; "fubar" fails with missing
\* part #2.
C18_DecoderPrecedence ==
    last.op = "decoded" =>
      /\ IF last.text = NullArg
         THEN last.result.err = InvalidTokenError("must be a string", 0)
         ELSE IF Len(split(last.text)) < PartNo
         THEN last.result.err = InvalidTokenError("missing part", PartNo)
         ELSE IF ~IsBase64(padded(PartText))
         THEN last.result.err = InvalidTokenError("invalid base64", PartNo)
         ELSE IF ~PartJson.ok
         THEN last.result.err = InvalidTokenError("invalid json", PartNo)
         ELSE last.result = [err |-> NoErr, obj |-> PartJson.v]
      /\ last.result.err # NoErr => last.result.obj = NoClaims
      /\ (last.text = FubarText /\ ~last.header) =>
            last.result.err = InvalidTokenError("missing part", 2)

\* a string whose header is not base64 and whose payload is missing was
\* decoded for its header: the failure is the header's
C18_Witness ==
    /\ last.op = "decoded"
    /\ last.header
    /\ last.text = FubarText
    /\ last.result.err = InvalidTokenError("invalid base64", 1)

\* an object as the set of its members: the mapping, whatever the order
AsMapping(v) == {<<v.e[i].k, v.e[i].v>> : i \in 1..Len(v.e)}

\* C19: decoding the payload of createMockJwt(claims) gives a mapping equal
\* to claims, and decoding its header gives {alg: "HS256", typ: "JWT"}.
C19_RoundTrip ==
    (last.op = "decoded" /\ last.made) =>
      /\ last.result.err = NoErr
      /\ last.result.obj.t = "obj"
      /\ IF last.header
         THEN last.result.obj = MockHeader
         ELSE AsMapping(last.result.obj) = AsMapping(last.claims)

\* the payload of a token of two claims was decoded; the claims hold a
\* quote and a two-byte character and the token a '+' or a '/'
C19_Witness ==
    /\ last.op = "decoded"
    /\ last.made
    /\ ~last.header
    /\ Len(last.claims.e) = 2
    /\ last.claims.e[1].v = Str(<<Quote, 233>>)
    /\ \E i \in 1..Len(last.text) : last.text[i] \in {43, 47}
    /\ AsMapping(last.result.obj) = AsMapping(last.claims)

\* C20: while debugMode is false no operation emits a diagnostic message:
\* not the construction, not a read that evicts a token, not the
\* acceptance of a token without exp.
C20_NoLogWithoutDebug ==
    ~debugMode => last.log = << >>

\* the entries of the two managers
EntryA == storageOf(window, storageType)["auth_token"]
EntryB == storageOf(window, storageType)["other_key"]

\* C21: two token strings of the same payload that differ only in the
\* signature segment get the same outcome at the same time and with the
\* same hook: set both stores both or raises the same error for both and
\* stores neither; read both returns both or evicts both on the same
\* error.
C21_SignatureIgnored ==
    [][/\ last'.op = "setPair" =>
            /\ last'.a.raised = last'.b.raised
            /\ IF last'.a.raised = NoErr
               THEN EntryA' = last'.ta /\ EntryB' = last'.tb
               ELSE EntryA' = EntryA /\ EntryB' = EntryB
       /\ last'.op = "getPair" =>
            /\ last'.a.caught = last'.b.caught
            /\ last'.a.ret = NULL <=> last'.b.ret = NULL
            /\ last'.a.ret # NULL =>
                  last'.a.ret = EntryA /\ last'.b.ret = EntryB
            /\ EntryA' = NULL <=> EntryB' = NULL
      ]_vars

\* both managers returned their token; the second token's signature is
\* not base64url
C21_Witness ==
    /\ last.op = "getPair"
    /\ last.a.ret # NULL
    /\ last.b.ret = EntryB
    /\ last.b.ret[3] = RawSeg
    /\ last.a.ret[2] = last.b.ret[2]
    /\ last.a.ret[3] # last.b.ret[3]

\* C22: every operation completes within the call stack: it never ends in
\* a stack overflow, and it calls the hook at most twice (for its own
\* validation and for that of a read the hook makes), whatever the hook,
\* the readme's hook that reads this.email included.
C22_CompletesWithinStack ==
    last.op \in {"get", "set"} =>
      /\ last.exc # RangeError
      /\ last.hookCalls <= 2

\* C23: manager.data and the claim accessors never raise: when the token
\* read gives a string, that string decodes again in the data getter, and
\* when the entry does not decode or fails the validation the result is
\* absent.
C23_DataNeverRaises ==
    last.op \in {"data", "claim"} =>
      /\ last.raised = NoErr
      /\ last.defined => Decodes(last.stored)
      /\ (last.stored # NULL /\ ~Decodes(last.stored)) =>
            last.caught.type = "InvalidTokenError"

\* manager.data was read while the entry held a string that is not a token
C23_Witness ==
    /\ last.op = "data"
    /\ last.stored \in MalformedTokens
    /\ last.raised = NoErr
    /\ ~last.defined
    /\ Entry = NULL

\* the step is a read (token, data or a claim accessor)
ReadStep == last'.op \in {"get", "data", "claim"}

\* C24: with a clock that never goes backwards and the no-op hook, a read
\* evicts a token stored through the setter only because it expired (exp
\* present and now >= exp): no later read fails the not-before check, and
\* a stored token without exp is never evicted.
C24_EvictedOnlyWhenExpired ==
    [][(ReadStep /\ Entry # NULL) =>
         /\ last'.caught.type \in {"none", "TokenExpired"}
         /\ Entry' = NULL =>
               /\ last'.caught.type = "TokenExpired"
               /\ Expired(ClaimsOf(Entry), Now)
         /\ ClaimsOf(Entry).exp = ABSENT => Entry' = Entry
      ]_vars

\* a token with nbf = 1 and exp = 2, stored at or after second 1, was
\* evicted by a read at second 2
C24_Witness ==
    /\ IsRead
    /\ last.stored # NULL
    /\ ClaimsOf(last.stored).nbf = 1
    /\ ClaimsOf(last.stored).exp = 2
    /\ last.caught = TokenExpired(2, 2)
    /\ Entry = NULL

\* C25: eviction is permanent: a read whose validation fails removes the
\* entry; while the entry is missing every token, data and accessor read
\* gives absent and leaves it missing, whatever the clock is set to, and
\* only a successful write of the setter brings an entry back.
C25_EvictionPermanent ==
    [][/\ (ReadStep /\ last'.caught # NoErr) => Entry' = NULL
       /\ (ReadStep /\ Entry = NULL) => ~last'.defined /\ Entry' = NULL
       /\ (Entry = NULL /\ Entry' # NULL) =>
             /\ last'.op = "set"
             /\ last'.raised = NoErr
             /\ Entry' = last'.arg
       /\ Entry = NULL => clock' = clock \/ Entry' = NULL
      ]_vars

\* the read of an expired token has evicted it
C25_Witness ==
    /\ IsRead
    /\ last.stored # NULL
    /\ last.caught.type = "TokenExpired"
    /\ ~last.defined
    /\ Entry = NULL
    /\ Now >= 1

\* C26: every operation of a manager touches only the entry under its own
\* key: the entries under the other keys of its backend are as they were
\* after every step, successful or failing, and what it validates and
\* returns is the entry under its own key.
C26_KeyIsolation ==
    [][/\ \A k \in Keys \ {key} :
            storageOf(window', storageType)[k]
              = storageOf(window, storageType)[k]
       /\ last'.op \in ManagerOp => last'.stored = Entry
       /\ last'.op = "get" => last'.ret \in {NULL, Entry}
      ]_vars

\* a read has evicted the manager's own token while the other key of the
\* same backend holds a token
C26_Witness ==
    /\ IsRead
    /\ last.stored # NULL
    /\ last.caught # NoErr
    /\ Entry = NULL
    /\ \E k \in Keys \ {key} : storageOf(window, storageType)[k] # NULL

\* C27: with two managers on the same key and backend whose operations
\* interleave in any order, every read gives absent or the value of the
\* most recent successful write of either manager, the entry is never
\* anything else, and a read whose validation fails leaves no entry, so
\* that the next read of either manager gives absent.
C27_LastWriteWins ==
    [][/\ last'.op = "get" => last'.ret \in {NULL, last'.written}
       /\ Entry' \in {NULL, last'.written}
       /\ (last'.op = "get" /\ last'.caught # NoErr) =>
             /\ Entry' = NULL
             /\ \A who \in Instances :
                   tokenGetter(window', storageType', key', clock',
                               hookOf(who)', debugMode').ret = NULL
      ]_vars

\* manager b has read the token that manager a wrote
C27_Witness ==
    /\ last.op = "get"
    /\ last.who = "b"
    /\ last.writer = "a"
    /\ last.ret # NULL
    /\ last.ret = last.written

\* C28: for the same operations, clock values and initial storage, the
\* run with debugMode as it is set (toggled at will between operations)
\* and the run with debugMode false give the same return values, the same
\* raised errors and the same storage contents after every step; only the
\* console messages may differ.
C28_DebugOnlyLogs ==
    /\ window.sessionStorage = window.localStorage
    /\ last.first.ret = last.second.ret
    /\ last.first.data = last.second.data
    /\ last.first.defined = last.second.defined
    /\ last.first.raised = last.second.raised

\* a token without exp is read in debug mode: the same token comes back
\* in both runs and only the debugging run has warned
C28_Witness ==
    /\ last.op = "get"
    /\ debugMode
    /\ last.first.ret # NULL
    /\ last.first.log = <<Warn021>>
    /\ last.second.log = << >>

====
